---- MODULE Spec2Model ----
(***************************************************************************)
(* Model of scripts/globalise-extract-text.py: the offset index built from *)
(* the PageXML layout, the accumulation over the files of one directory    *)
(* group, the token sequence and its anchors, the ordering of the          *)
(* annotation list, the targets of the Web Annotations, the export of one  *)
(* directory group and the loop over the directory groups; and of          *)
(* scripts/gt-xmi-to-wa.py: the XMIProcessor and the loop over the XMI     *)
(* files.                                                                  *)
(*                                                                         *)
(* Strings are sequences of one-character strings; Python's 0-based,       *)
(* half-open indices are kept in every offset, length and anchor.          *)
(***************************************************************************)
EXTENDS Integers, Sequences, FiniteSets, TLC

VARIABLES
    files,            \* the parsed PageXML files of the directory group, in sorted order
    metadata_records, \* module-level list filled by load_metadata
    tr_versions,      \* module-level dict filled by load_tr_versions
    iiif_base_url_idx,\* module-level dict filled by init_iiif_base_url_idx
    pc,               \* position in process_directory_group
    file_idx,         \* number of files process_pagexml_files has handled
    start_offset,     \* local of process_pagexml_files
    all_pars,         \* list of paragraphs (each ends with a newline)
    all_annotations,  \* list of Annotation records
    scan_ranges,      \* dict page_id -> (start, end)
    tokens,           \* list of GTToken
    metadata,         \* the record read_metadata returned (a list of 0 or 1 records)
    web_annotations,  \* list of WebAnnotation
    exported,         \* what export() has written, one output per unit exported
    steps,            \* the calls process_directory_group has completed, in order
    error,            \* the exception that ended the unit, "" when none
    char_range,       \* arguments of the last direct call of segment_range
    result,           \* what that call returned
    directories,      \* the directory groups process has still to handle
    document_data,    \* XMIProcessorFactory.document_data, the records in file order
    xmi_paths,        \* the XMI files extract_web_annotations has still to handle
    xp,               \* the XMIProcessor of the current XMI file (a list of 0 or 1)
    written           \* the files extract_web_annotations has written

vars == <<files, metadata_records, tr_versions, iiif_base_url_idx, pc, file_idx, start_offset, all_pars,
          all_annotations, scan_ranges, tokens, metadata, web_annotations, exported,
          steps, error, char_range, result, directories, document_data, xmi_paths, xp,
          written>>

\* the state of gt-xmi-to-wa.py
xmi_vars == <<document_data, xmi_paths, xp, written>>

----------------------------------------------------------------------------
(* Bounds of the model *)

\* most display words in one directory group
MaxWords == 2
\* most PageXML files in one directory group
MaxFiles == 3
\* most tokens (sentinels included) of a token sequence given to segment_range
MaxTokens == 4
\* largest character offset of a range given to segment_range
MaxOffset == 8
\* largest length of an annotation given to add_anchor_range
MaxLength == 2
\* most annotations of a list given to the sort
MaxSortLen == 2
\* largest start or end of a page range given to get_page_id
MaxRangeEnd == 3
\* most polygons of an annotation given to annotation_targets
MaxPolygons == 2
\* most directory groups given to process
MaxUnits == 2
\* most XMI files given to extract_web_annotations
MaxXmiPaths == 2
\* most annotations in the CAS of the first XMI file
MaxFeatureStructures == 1
\* most provenance intervals of a document-data record
MaxIntervals == 2

----------------------------------------------------------------------------
(* Python string and list primitives *)

NL == "\n"
SP == " "

isspace(c) == c \in {SP, NL}

Min(a, b) == IF a < b THEN a ELSE b
Max(a, b) == IF a > b THEN a ELSE b

SetMin(S) == CHOOSE x \in S : \A y \in S : x <= y
SetMax(S) == CHOOSE x \in S : \A y \in S : x >= y

RECURSIVE lstrip(_)
lstrip(s) ==
    IF s = <<>> THEN s
    ELSE IF isspace(Head(s)) THEN lstrip(Tail(s)) ELSE s

RECURSIVE rstrip(_)
rstrip(s) ==
    IF s = <<>> THEN s
    ELSE IF isspace(s[Len(s)]) THEN rstrip(SubSeq(s, 1, Len(s) - 1)) ELSE s

\* str.strip()
strip(s) == rstrip(lstrip(s))

\* "".join(list)
RECURSIVE join(_)
join(ss) == IF ss = <<>> THEN <<>> ELSE Head(ss) \o join(Tail(ss))

\* s[b:e] for 0 <= b
slice(s, b, e) ==
    IF b >= Min(e, Len(s)) THEN <<>> ELSE SubSeq(s, b + 1, Min(e, Len(s)))

\* str.split(sep) for a separator of one character
RECURSIVE split(_, _)
split(s, sep) ==
    IF \A k \in 1..Len(s) : s[k] # sep THEN <<s>>
    ELSE LET k == CHOOSE k \in 1..Len(s) : s[k] = sep /\ \A j \in 1..(k - 1) : s[j] # sep
         IN  <<SubSeq(s, 1, k - 1)>> \o split(SubSeq(s, k + 1, Len(s)), sep)

\* dict[key] = value
put(dict, key, value) == (key :> value) @@ dict

EmptyDict == <<>>

----------------------------------------------------------------------------
(* The layout a PageXML file parses to: display words in reading order,    *)
(* each made of one or more PageXML words, and the text lines and text     *)
(* regions with the ids of their first and last PageXML word.              *)

\* the display words a file is made of: text as appended to the running text,
\* and the number of PageXML words joined into the display word
WordShapes ==
    { [text |-> <<"a", SP>>, npx |-> 1],
      [text |-> <<"a", "b", NL>>, npx |-> 2],
      [text |-> <<SP, "a">>, npx |-> 1],
      [text |-> <<NL>>, npx |-> 1] }

\* base names of the files of a group, in sorted order
PageIds == <<"p1", "p2", "p3", "p4", "p5">>

PLACEHOLDER == ":placeholder:"

\* polygon of the n-th PageXML word of a page
Polygon(n) == << <<20 * n, 0>>, <<20 * n + 10, 0>>, <<20 * n + 10, 5>>, <<20 * n, 5>> >>

\* polygon around the PageXML words first..last
SpanPolygon(first, last) ==
    << <<20 * first, 0>>, <<20 * last + 10, 0>>, <<20 * last + 10, 5>>, <<20 * first, 5>> >>

RECURSIVE DisplayWords(_, _, _, _)
DisplayWords(shapes, page_id, n, px) ==
    IF shapes = <<>> THEN <<>>
    ELSE LET s == Head(shapes)
             w == [id |-> n,
                   text |-> s.text,
                   px_words |-> [k \in 1..s.npx |-> [id |-> px + k, page_id |-> page_id]]]
         IN  <<w>> \o DisplayWords(Tail(shapes), page_id, n + 1, px + s.npx)

\* ids of the PageXML words that end a text line: the last one of the page, the
\* last one of a display word that ends with a newline, and every one but the
\* last of a display word joined over a line break
LineEnds(words) ==
    { pw.id : pw \in UNION { { w.px_words[k] : k \in 1..Len(w.px_words) } :
                             w \in { words[i] : i \in 1..Len(words) } } } \cap
    UNION { LET w == words[i]
                n == Len(w.px_words)
            IN  { w.px_words[k].id : k \in 1..(n - 1) } \cup
                (IF w.text[Len(w.text)] = NL \/ i = Len(words)
                 THEN {w.px_words[n].id} ELSE {}) : i \in 1..Len(words) }

\* text of the display words whose first PageXML word lies in first..last
ElementText(words, first, last) ==
    strip(join([i \in 1..Len(words) |->
                  IF words[i].px_words[1].id \in first..last THEN words[i].text ELSE <<>>]))

RECURSIVE TextLines(_, _, _, _)
TextLines(words, page_id, first, ends) ==
    IF ends = {} THEN <<>>
    ELSE LET last == CHOOSE e \in ends : \A f \in ends : e <= f
         IN  << [id |-> first, page_id |-> page_id, first_word_id |-> first,
                 last_word_id |-> last, text |-> ElementText(words, first, last),
                 coords |-> SpanPolygon(first, last)] >>
             \o TextLines(words, page_id, last + 1, ends \ {last})

\* one file: its display words, its lines, and one region holding all lines
Layout(shapes, page_id) ==
    LET words == DisplayWords(shapes, page_id, 1, 0)
        lines == TextLines(words, page_id, 1, LineEnds(words))
    IN  [page_id |-> page_id,
         display_words |-> words,
         px_text_lines |-> lines,
         px_text_regions |->
             IF lines = <<>> THEN <<>>
             ELSE << [id |-> 1, page_id |-> page_id,
                      first_word_id |-> lines[1].first_word_id,
                      last_word_id |-> lines[Len(lines)].last_word_id,
                      text |-> ElementText(words, 1, lines[Len(lines)].last_word_id),
                      coords |-> SpanPolygon(1, lines[Len(lines)].last_word_id)] >>]

\* the ways to deal n words over the files 1..m, in order
Deals(n, m) == { d \in [1..n -> 1..m] : \A i, j \in 1..n : i <= j => d[i] <= d[j] }

SelectSeq2(s, d, f) ==
    LET idx == { i \in 1..Len(s) : d[i] = f }
        lo == IF idx = {} THEN 1 ELSE CHOOSE i \in idx : \A j \in idx : i <= j
    IN  [k \in 1..Cardinality(idx) |-> s[lo + k - 1]]

\* every directory group within the bounds
Groups ==
    UNION { UNION { { [f \in 1..m |-> Layout(SelectSeq2(shapes, d, f), PageIds[f])] :
                      d \in Deals(n, m), shapes \in [1..n -> WordShapes] } :
                    n \in 0..MaxWords } : m \in 1..MaxFiles }

----------------------------------------------------------------------------
(* Annotation records *)

NoMetadata == [has_text |-> FALSE, text |-> <<>>, has_coords |-> FALSE, coords |-> <<>>]

\* the Annotation dataclass with its defaults; metadata.coords is kept as a list
\* of polygons for every type (a line or region holds a single polygon)
Annotation(type, id, page_id, offset, length, md) ==
    [type |-> type, id |-> id, page_id |-> page_id, offset |-> offset, length |-> length,
     segmented_version_id |-> "", begin_anchor |-> 0, end_anchor |-> 0,
     txt_version_id |-> "", char_start |-> 0, char_end |-> 0, metadata |-> md]

make_id_prefix(scan_doc) == scan_doc.page_id

make_word_id(prefix, w) ==
    [prefix |-> prefix, kind |-> "word",
     key |-> [k \in 1..Len(w.px_words) |-> w.px_words[k].id]]

make_textline_id(prefix, line_id) == [prefix |-> prefix, kind |-> "textline", key |-> <<line_id>>]

make_page_id(prefix) == [prefix |-> prefix, kind |-> "", key |-> <<>>]

make_textregion_id(prefix, textregion_id) ==
    [prefix |-> prefix, kind |-> "textregion", key |-> <<textregion_id>>]

word_annotation(id_prefix, stripped, text, w) ==
    Annotation("tt:Word", make_word_id(id_prefix, w), w.px_words[1].page_id,
               Len(text), Len(stripped),
               [has_text |-> TRUE, text |-> stripped, has_coords |-> TRUE,
                coords |-> [k \in 1..Len(w.px_words) |-> Polygon(w.px_words[k].id)]])

page_annotation(id_prefix, page_id, total_size) ==
    Annotation("px:Page", make_page_id(id_prefix), page_id, 0, total_size, NoMetadata)

text_region_annotation(text_region, id_prefix, offset, length) ==
    Annotation("px:TextRegion", make_textregion_id(id_prefix, text_region.id),
               text_region.page_id, offset, length,
               [has_text |-> TRUE, text |-> text_region.text, has_coords |-> TRUE,
                coords |-> <<text_region.coords>>])

text_line_annotation(text_line, id_prefix, offset, length) ==
    Annotation("px:TextLine", make_textline_id(id_prefix, text_line.id),
               text_line.page_id, offset, length,
               [has_text |-> TRUE, text |-> text_line.text, has_coords |-> TRUE,
                coords |-> <<text_line.coords>>])

----------------------------------------------------------------------------
(* process_pagexml *)

\* the loop over the display words: the running text, the word annotations and
\* display_word_range_idx
RECURSIVE word_loop(_, _, _)
word_loop(id_prefix, display_words, acc) ==
    IF display_words = <<>> THEN acc
    ELSE LET w == Head(display_words)
             stripped == strip(w.text)
             wa == word_annotation(id_prefix, stripped, acc.text, w)
         IN  word_loop(id_prefix, Tail(display_words),
                       [text |-> acc.text \o w.text,
                        annotations |-> Append(acc.annotations, wa),
                        display_word_range_idx |->
                            put(acc.display_word_range_idx, w.id,
                                <<wa.offset, wa.offset + wa.length>>)])

RECURSIVE index_word_ranges(_, _)
index_word_ranges(words, word_range_index) ==
    IF words = <<>> THEN EmptyDict
    ELSE LET w == words[Len(words)]
             earlier == index_word_ranges(SubSeq(words, 1, Len(words) - 1), word_range_index)
         IN  [id \in { w.px_words[k].id : k \in 1..Len(w.px_words) } |-> word_range_index[w.id]]
             @@ earlier

element_offset(px_word_range_idx, element) == px_word_range_idx[element.first_word_id][1]

\* the length taken up to the start of the last word
element_length_to_start(px_word_range_idx, element) ==
    px_word_range_idx[element.last_word_id][1] - element_offset(px_word_range_idx, element)

element_length(px_word_range_idx, element) ==
    px_word_range_idx[element.last_word_id][2] - element_offset(px_word_range_idx, element)

paragraphs_of(text) ==
    LET pars == split(text, NL) IN [k \in 1..Len(pars) |-> pars[k] \o <<NL>>]

process_pagexml(scan_doc) ==
    LET id_prefix == make_id_prefix(scan_doc)
        looped == word_loop(id_prefix, scan_doc.display_words,
                            [text |-> <<>>, annotations |-> <<>>,
                             display_word_range_idx |-> EmptyDict])
        px_word_range_idx == index_word_ranges(scan_doc.display_words,
                                               looped.display_word_range_idx)
        paragraphs == paragraphs_of(looped.text)
        total_size == Len(join(paragraphs))
        regions == scan_doc.px_text_regions
        lines == scan_doc.px_text_lines
    IN  [paragraphs |-> paragraphs,
         annotations |->
             looped.annotations
             \o << page_annotation(id_prefix, scan_doc.page_id, total_size) >>
             \o [k \in 1..Len(regions) |->
                   text_region_annotation(regions[k], id_prefix,
                                          element_offset(px_word_range_idx, regions[k]),
                                          element_length(px_word_range_idx, regions[k]))]
             \o [k \in 1..Len(lines) |->
                   text_line_annotation(lines[k], id_prefix,
                                        element_offset(px_word_range_idx, lines[k]),
                                        element_length(px_word_range_idx, lines[k]))],
         total_size |-> total_size]

----------------------------------------------------------------------------
(* process_pagexml_files: one iteration of the loop over the files *)

\* the offset assigned instead of added
rebase_assigned(annotation, offset) == [annotation EXCEPT !.offset = offset]

rebase(annotation, offset) == [annotation EXCEPT !.offset = @ + offset]

\* the newline that ends the last paragraph left out of the running total
next_start_offset_short(offset, par_length) == offset + par_length - 1

next_start_offset(offset, par_length) == offset + par_length

ranges_per_scan_put(dict, pa) ==
    IF pa.type = "px:Page" THEN put(dict, pa.page_id, <<pa.offset, pa.offset + pa.length>>)
    ELSE dict

RECURSIVE ranges_per_scan(_)
ranges_per_scan(annotations) ==
    IF annotations = <<>> THEN EmptyDict
    ELSE ranges_per_scan_put(ranges_per_scan(SubSeq(annotations, 1, Len(annotations) - 1)),
                             annotations[Len(annotations)])

\* create_base_name: the common base with the first and the last page
create_base_name(pagexml_files) ==
    <<pagexml_files[1].page_id, pagexml_files[Len(pagexml_files)].page_id>>

----------------------------------------------------------------------------
(* The segmenter and tokenize_per_paragraph *)

GTToken(text, text_with_ws, offset) ==
    [text |-> text, text_with_ws |-> text_with_ws, offset |-> offset]

Sentinel == GTToken(<<>>, <<>>, -1)

\* how the segmenter cuts: runs of non-space characters as one token or one
\* token per character, with or without tokens for the white space that is not
\* the single space after a token
Segmenters == [per_char : BOOLEAN, space_tokens : BOOLEAN]

\* whether a token of the segmenter starts at position k (1-based) of par
TokenStart(par, k, seg) ==
    IF isspace(par[k])
    THEN seg.space_tokens /\ ~(par[k] = SP /\ k > 1 /\ ~isspace(par[k - 1]))
    ELSE seg.per_char \/ k = 1 \/ isspace(par[k - 1])

\* the last position of the token that starts at k
TokenEnd(par, k, seg) ==
    IF isspace(par[k]) THEN k
    ELSE CHOOSE e \in k..Len(par) :
            /\ \A j \in k..e : ~isspace(par[j])
            /\ \A j \in (k + 1)..e : ~TokenStart(par, j, seg)
            /\ (e = Len(par) \/ isspace(par[e + 1]) \/ TokenStart(par, e + 1, seg))

RECURSIVE nlp_from(_, _, _)
nlp_from(par, k, seg) ==
    IF k > Len(par) THEN <<>>
    ELSE IF TokenStart(par, k, seg)
         THEN LET e == TokenEnd(par, k, seg)
                  ws == IF e < Len(par) /\ par[e + 1] = SP /\ ~isspace(par[k]) THEN 1 ELSE 0
              IN  << [text |-> SubSeq(par, k, e), text_with_ws |-> SubSeq(par, k, e + ws),
                      idx |-> k - 1] >> \o nlp_from(par, e + 1, seg)
         ELSE nlp_from(par, k + 1, seg)

\* the tokens of all sentences of nlp(par), in order
nlp(par, seg) == nlp_from(par, 1, seg)

RECURSIVE paragraph_tokens(_, _)
paragraph_tokens(doc, text_offset) ==
    IF doc = <<>> THEN <<>>
    ELSE LET token == Head(doc)
         IN  (IF token.text # <<NL>>
              THEN <<GTToken(token.text, token.text_with_ws, text_offset + token.idx)>>
              ELSE <<>>) \o paragraph_tokens(Tail(doc), text_offset)

RECURSIVE tokenize_from(_, _, _)
tokenize_from(pars, text_offset, seg) ==
    IF pars = <<>> THEN <<>>
    ELSE paragraph_tokens(nlp(Head(pars), seg), text_offset)
         \o <<Sentinel>>
         \o tokenize_from(Tail(pars), text_offset + Len(Head(pars)), seg)

\* the paragraphs tokenized as one text, with a single sentinel at its end
tokenize_joined(pars, seg) == tokenize_from(<<join(pars)>>, 0, seg)

tokenize_per_paragraph(pars, seg) == tokenize_from(pars, 0, seg)

----------------------------------------------------------------------------
(* Token and paragraph annotations *)

\* the first of the ranges that hold the offset taken, however many there are
get_page_id_first(offset, length, ranges) ==
    LET overlapping_ranges == { p \in DOMAIN ranges :
                                  ranges[p][1] <= offset /\ offset < ranges[p][2] }
    IN  IF overlapping_ranges # {}
        THEN CHOOSE p \in overlapping_ranges : \A q \in overlapping_ranges : ranges[p][1] <= ranges[q][1]
        ELSE PLACEHOLDER

get_page_id(offset, length, ranges) ==
    LET range_start == offset
        overlapping_ranges == { p \in DOMAIN ranges :
                                  ranges[p][1] <= range_start /\ range_start < ranges[p][2] }
    IN  IF Cardinality(overlapping_ranges) = 1
        THEN CHOOSE p \in overlapping_ranges : TRUE
        ELSE PLACEHOLDER

paragraph_annotation(base_name, page_id, par_num, par_offset, par_length, text) ==
    Annotation("tt:Paragraph",
               [prefix |-> base_name, kind |-> "paragraph", key |-> <<par_num>>],
               page_id, par_offset, par_length,
               [has_text |-> TRUE, text |-> text, has_coords |-> FALSE, coords |-> <<>>])

\* the function as defined, with its seven parameters
token_annotation(base_name, page_id, token_num, offset, token_length, token_text, sentence_num) ==
    Annotation("tt:Token",
               [prefix |-> base_name, kind |-> "token", key |-> <<token_num>>],
               page_id, offset, token_length,
               [has_text |-> TRUE, text |-> token_text, has_coords |-> FALSE, coords |-> <<>>])

\* the loop of make_token_annotations from token i (0-based) on.  The call of
\* token_annotation in the branch of a real token passes six keyword arguments
\* and no sentence_num, which has no default: the call raises TypeError before
\* anything is appended and before par_length is assigned.
RECURSIVE token_loop(_, _, _, _, _)
token_loop(base_name, toks, ranges, i, st) ==
    IF i >= Len(toks) THEN [raised |-> "", annotations |-> st.annotations]
    ELSE LET gp_token == toks[i + 1]
             par_text == st.par_text \o gp_token.text \o <<SP>>
             offset == gp_token.offset
         IN  IF offset < 0
             THEN LET page_id == get_page_id(st.par_offset, st.par_length, ranges)
                  IN  token_loop(base_name, toks, ranges, i + 1,
                                 [annotations |->
                                      Append(st.annotations,
                                             paragraph_annotation(base_name, page_id,
                                                                  st.par_num, st.par_offset,
                                                                  st.par_length,
                                                                  strip(par_text))),
                                  par_offset |-> st.par_offset + st.par_length,
                                  par_length |-> st.par_length,
                                  par_num |-> st.par_num + 1,
                                  par_text |-> <<>>])
             ELSE [raised |-> "TypeError", annotations |-> <<>>]

make_token_annotations(base_name, toks, ranges) ==
    token_loop(base_name, toks, ranges, 0,
               [annotations |-> <<>>, par_offset |-> 0, par_length |-> 0, par_num |-> 1,
                par_text |-> <<>>])

----------------------------------------------------------------------------
(* Anchors *)

\* the test on a sentinel left out
begins_in_range_any(offset, char_range_begin) == offset <= char_range_begin

\* -1 < token.offset <= char_range_begin
begins_in_range(offset, char_range_begin) == -1 < offset /\ offset <= char_range_begin

\* a token at the end of the range counted in
ends_in_range_closed(offset, char_range_end) == -1 < offset /\ offset <= char_range_end

\* -1 < token.offset < char_range_end
ends_in_range(offset, char_range_end) == -1 < offset /\ offset < char_range_end

\* the loop of segment_range from token i (0-based) on
RECURSIVE segment_loop(_, _, _, _, _, _)
segment_loop(toks, i, char_range_begin, char_range_end, begin_idx, end_idx) ==
    IF i >= Len(toks) THEN <<begin_idx, end_idx>>
    ELSE LET offset == toks[i + 1].offset
             b == IF begins_in_range(offset, char_range_begin) THEN i ELSE begin_idx
         IN  IF ends_in_range(offset, char_range_end)
             THEN segment_loop(toks, i + 1, char_range_begin, char_range_end, b, i)
             ELSE IF -1 < offset
                  THEN <<b, end_idx>>
                  ELSE segment_loop(toks, i + 1, char_range_begin, char_range_end, b, end_idx)

segment_range(toks, char_range_begin, char_range_end) ==
    segment_loop(toks, 0, char_range_begin, char_range_end, 0, 0)

add_anchor_range(annotations, toks) ==
    [k \in 1..Len(annotations) |->
        LET a == annotations[k]
            r == segment_range(toks, a.offset, a.offset + a.length)
        IN  [a EXCEPT !.begin_anchor = r[1], !.end_anchor = r[2]]]

add_tr_versions(annotations, versions) ==
    [k \in 1..Len(annotations) |->
        [annotations[k] EXCEPT !.segmented_version_id = versions.segmented,
                               !.txt_version_id = versions.txt]]

----------------------------------------------------------------------------
(* The sort of the annotation list *)

\* code points of the characters of the page ids
CodePoints ==
    ("p1" :> <<112, 49>>) @@ ("p2" :> <<112, 50>>) @@ ("p3" :> <<112, 51>>) @@
    ("p4" :> <<112, 52>>) @@ ("p5" :> <<112, 53>>) @@
    (PLACEHOLDER :> <<58, 112, 108, 97, 99, 101, 104, 111, 108, 100, 101, 114, 58>>)

\* str(n) for n >= 0, as code points
RECURSIVE digits(_)
digits(n) == IF n < 10 THEN <<48 + n>> ELSE digits(n \div 10) \o <<48 + (n % 10)>>

zeros(n) == [k \in 1..n |-> 48]

\* f"{n:06d}": the sign first, then zeros up to a width of six
format_06d(n) ==
    LET ds == digits(IF n < 0 THEN -n ELSE n)
        sign == IF n < 0 THEN <<45>> ELSE <<>>
    IN  sign \o zeros(Max(0, 6 - Len(sign) - Len(ds))) \o ds

sort_key(a) ==
    CodePoints[a.page_id] \o <<32>> \o format_06d(a.offset) \o <<32>>
    \o format_06d(1000 - a.length)

\* s < t for Python strings given as code points
RECURSIVE str_less(_, _)
str_less(s, t) ==
    IF t = <<>> THEN FALSE
    ELSE IF s = <<>> THEN TRUE
    ELSE IF Head(s) # Head(t) THEN Head(s) < Head(t)
    ELSE str_less(Tail(s), Tail(t))

\* a into the sorted list, after the elements whose key is not greater (stable)
RECURSIVE insert_sorted(_, _)
insert_sorted(sorted, a) ==
    IF sorted = <<>> THEN <<a>>
    ELSE IF str_less(sort_key(a), sort_key(Head(sorted))) THEN <<a>> \o sorted
    ELSE <<Head(sorted)>> \o insert_sorted(Tail(sorted), a)

RECURSIVE sort_by_key(_)
sort_by_key(annotations) ==
    IF annotations = <<>> THEN <<>>
    ELSE insert_sorted(sort_by_key(SubSeq(annotations, 1, Len(annotations) - 1)),
                       annotations[Len(annotations)])

----------------------------------------------------------------------------
(* The lookup tables *)

\* index number and scan number in the base name of a file
BaseNameParts(basename) ==
    [index_nr |-> "1297",
     scan |-> CHOOSE k \in 1..Len(PageIds) : PageIds[k] = basename]

MetadataRecord(index_nr, scan_begin, scan_eind) ==
    [Indexnr |-> index_nr, Scan_begin |-> scan_begin, Scan_Eind |-> scan_eind,
     updated |-> EmptyDict]

\* the metadata file with one, two or no record for the group
MetadataTables ==
    { << MetadataRecord("1297", 1, 9) >>,
      << MetadataRecord("1297", 1, 9), MetadataRecord("1297", 1, 2) >>,
      << MetadataRecord("1300", 1, 9) >> }

BaseNames == { <<PageIds[j], PageIds[k]>> : j, k \in 1..Len(PageIds) }

TRVersionsTable ==
    [b \in BaseNames |-> [txt |-> "txt-version", segmented |-> "segmented-version",
                          conll |-> "conll-version"]]

IIIFTable ==
    ("p1" :> "iiif-p1") @@ ("p2" :> "iiif-p2") @@ ("p3" :> "iiif-p3") @@
    ("p4" :> "iiif-p4") @@ ("p5" :> "iiif-p5")

\* positions of the records read_metadata finds relevant
relevant_records(basename, records) ==
    LET parts == BaseNameParts(basename)
    IN  { i \in 1..Len(records) :
            /\ records[i].Indexnr = parts.index_nr
            /\ records[i].Scan_begin <= parts.scan
            /\ parts.scan <= records[i].Scan_Eind }

\* the first of the relevant records returned when there are more than one
read_metadata_first(basename, records) ==
    LET relevant == relevant_records(basename, records)
    IN  IF relevant = {} THEN [raised |-> "IndexError", at |-> 0]
        ELSE [raised |-> "", at |-> SetMin(relevant)]

\* read_metadata: the position of the record it returns, or the exception
read_metadata(basename, records) ==
    LET relevant == relevant_records(basename, records)
    IN  IF Cardinality(relevant) > 1 THEN [raised |-> "TypeError", at |-> 0]
        ELSE IF relevant = {} THEN [raised |-> "IndexError", at |-> 0]
        ELSE [raised |-> "", at |-> CHOOSE i \in relevant : TRUE]

\* metadata.update({...}) on the record read_metadata returned
metadata_update(record, annotations) ==
    [record EXCEPT !.updated =
        [k \in {"tanap_vestiging", "tanap_jaar", "annotations"} |->
            CASE k = "tanap_vestiging" -> "Batavia"
              [] k = "tanap_jaar" -> 1684
              [] k = "annotations" -> annotations]]

----------------------------------------------------------------------------
(* Web annotations *)

Source(scheme, base, region, anchors) ==
    [scheme |-> scheme, base |-> base, region |-> region, anchors |-> anchors]

Selector(type, value, path) == [type |-> type, value |-> value, path |-> path]

Target(type, source, form, selector) ==
    [type |-> type, source |-> source, selector_form |-> form, selector |-> selector]

xs(points) == { points[k][1] : k \in 1..Len(points) }
ys(points) == { points[k][2] : k \in 1..Len(points) }

DigitChars == <<"0", "1", "2", "3", "4", "5", "6", "7", "8", "9">>

\* f"{n}" for an int
RECURSIVE str(_)
str(n) ==
    IF n < 0 THEN <<"-">> \o str(-n)
    ELSE IF n < 10 THEN <<DigitChars[n + 1]>>
    ELSE str(n \div 10) \o <<DigitChars[(n % 10) + 1]>>

\* sep.join(list)
RECURSIVE join_with(_, _)
join_with(ss, sep) ==
    IF ss = <<>> THEN <<>>
    ELSE IF Len(ss) = 1 THEN ss[1]
    ELSE ss[1] \o sep \o join_with(Tail(ss), sep)

\* Coords.box and Coords.left, top, width, height of the layout library
box(points) ==
    <<SetMin(xs(points)), SetMin(ys(points)),
      SetMax(xs(points)) - SetMin(xs(points)), SetMax(ys(points)) - SetMin(ys(points))>>

\* f"{x},{y},{w},{h}"
xywh_format(b) ==
    str(b[1]) \o <<",">> \o str(b[2]) \o <<",">> \o str(b[3]) \o <<",">> \o str(b[4])

to_xywh(points) == xywh_format(box(points))

\* the region of a IIIF URL that addresses the whole image
FULL == <<"f", "u", "l", "l">>

\* "xywh=" in front of the value of a FragmentSelector
XYWH_IS == <<"x", "y", "w", "h", "=">>

\* the d attribute of one polygon: "L.. .." for each point, " Z" appended, and
\* the first character replaced by "M"
path_def_of(coords) ==
    <<"M">> \o Tail(join_with([k \in 1..Len(coords) |->
                                  <<"L">> \o str(coords[k][1]) \o <<SP>> \o str(coords[k][2])],
                              <<SP>>)
                    \o <<SP, "Z">>)

RECURSIVE svg_loop(_, _)
svg_loop(coords_list, acc) ==
    IF coords_list = <<>> THEN acc
    ELSE LET coords == Head(coords_list)
         IN  svg_loop(Tail(coords_list),
                      [height |-> Max(acc.height, SetMax(ys(coords))),
                       width |-> Max(acc.width, SetMax(xs(coords))),
                       path_defs |-> Append(acc.path_defs, path_def_of(coords))])

\* the selector with the height and width of the svg element and the d
\* attribute of its path element
svg_selector(coords_list) ==
    LET r == svg_loop(coords_list, [height |-> 0, width |-> 0, path_defs |-> <<>>])
    IN  Selector("SvgSelector", <<r.height, r.width>>, join_with(r.path_defs, <<SP>>))

image_target_wth_svg_selector(iiif_url, coords_list) ==
    Target("Image", iiif_url, "one", <<svg_selector(coords_list)>>)

\* the combined target with the selector of the svg target alone
make_image_targets_svg_only(iiif_base_url, coords) ==
    LET iiif_url == Source("iiif", iiif_base_url, FULL, <<>>)
        svg_target == image_target_wth_svg_selector(iiif_url, coords)
    IN  [k \in 1..Len(coords) |->
            Target("Image", Source("iiif", iiif_base_url, xywh_format(box(coords[k])), <<>>),
                   "none", <<>>)]
        \o <<svg_target>>

make_image_targets(iiif_base_url, coords) ==
    LET iiif_url == Source("iiif", iiif_base_url, FULL, <<>>)
        svg_target == image_target_wth_svg_selector(iiif_url, coords)
        selectors == [k \in 1..Len(coords) |->
                         Selector("FragmentSelector",
                                  XYWH_IS \o xywh_format(box(coords[k])), <<>>)]
                     \o svg_target.selector
    IN  [k \in 1..Len(coords) |->
            Target("Image", Source("iiif", iiif_base_url, xywh_format(box(coords[k])), <<>>),
                   "none", <<>>)]
        \o << Target("Image", iiif_url, "list", selectors) >>

canvas_target(page_id, xywh_list, coords_list) ==
    Target("Canvas", Source("canvas", page_id, <<>>, <<>>), "list",
           [k \in 1..Len(xywh_list) |-> Selector("iiif:ImageApiSelector", xywh_list[k], <<>>)]
           \o (IF coords_list # <<>> THEN <<svg_selector(coords_list)>> ELSE <<>>))

\* the target make_text_targets builds and leaves out of the list it returns
fragment_selector_target(annotation) ==
    Target("Text", Source("rest", annotation.txt_version_id, <<>>, <<>>), "one",
           << Selector("FragmentSelector",
                       <<"c", "h", "a", "r", "=">> \o str(annotation.char_start) \o <<",">>
                       \o str(annotation.char_end), <<>>) >>)

make_text_targets(annotation) ==
    LET text_anchor_selector_target ==
            Target("Text", Source("rest", annotation.segmented_version_id, <<>>, <<>>), "one",
                   << Selector("urn:republic:TextAnchorSelector",
                               <<annotation.begin_anchor, annotation.end_anchor>>, <<>>) >>)
        cutout_target ==
            Target("Text", Source("view", annotation.segmented_version_id, <<>>,
                                  <<annotation.begin_anchor, annotation.end_anchor>>),
                   "none", <<>>)
    IN  <<text_anchor_selector_target, cutout_target>>

\* whether annotation_targets looks the page up in iiif_base_url_idx
needs_iiif_base_url(annotation) ==
    annotation.metadata.has_coords \/ annotation.type = "px:Page"

annotation_targets(annotation, iiif_idx) ==
    LET page_id == annotation.page_id
        coords == annotation.metadata.coords
    IN  (IF annotation.metadata.has_coords
         THEN make_image_targets(iiif_idx[page_id], coords)
              \o << canvas_target(page_id, [k \in 1..Len(coords) |-> to_xywh(coords[k])],
                                  coords) >>
         ELSE <<>>)
        \o (IF annotation.type = "px:Page"
            THEN << Target("Image", Source("iiif", iiif_idx[page_id], FULL, <<>>),
                           "none", <<>>) >>
            ELSE <<>>)
        \o make_text_targets(annotation)

annotation_body(annotation) ==
    [id |-> annotation.id, type |-> annotation.type,
     has_text |-> annotation.metadata.has_text, text |-> annotation.metadata.text]

to_web_annotation(annotation, iiif_idx) ==
    [body |-> annotation_body(annotation), target |-> annotation_targets(annotation, iiif_idx)]

make_web_annotations(annotations, iiif_idx) ==
    [k \in 1..Len(annotations) |-> to_web_annotation(annotations[k], iiif_idx)]

----------------------------------------------------------------------------
(* process_directory_group, one call after the other *)

base_name == create_base_name(files)

\* gt-xmi-to-wa.py is not running
NoXMI ==
    /\ document_data = <<>>
    /\ xmi_paths = <<>>
    /\ xp = <<>>
    /\ written = <<>>

Init ==
    /\ files \in Groups
    /\ metadata_records \in MetadataTables
    /\ tr_versions = TRVersionsTable
    /\ iiif_base_url_idx = IIIFTable
    /\ pc = "process_pagexml_files"
    /\ file_idx = 0
    /\ start_offset = 0
    /\ all_pars = <<>>
    /\ all_annotations = <<>>
    /\ scan_ranges = EmptyDict
    /\ tokens = <<>>
    /\ metadata = <<>>
    /\ web_annotations = <<>>
    /\ exported = <<>>
    /\ steps = <<>>
    /\ error = ""
    /\ char_range = <<>>
    /\ result = <<>>
    /\ directories = <<>>
    /\ NoXMI

Tables == <<metadata_records, tr_versions, iiif_base_url_idx>>

\* an exception leaves process_directory_group and process: nothing catches it
Raise(exception) ==
    /\ pc' = "raised"
    /\ error' = exception

\* one iteration of the loop of process_pagexml_files
ProcessPagexmlFile ==
    /\ pc = "process_pagexml_files"
    /\ file_idx < Len(files)
    /\ LET p == process_pagexml(files[file_idx + 1])
       IN  /\ all_pars' = all_pars \o p.paragraphs
           /\ all_annotations' =
                  all_annotations
                  \o [k \in 1..Len(p.annotations) |-> rebase(p.annotations[k], start_offset)]
           /\ start_offset' = next_start_offset(start_offset, p.total_size)
    /\ file_idx' = file_idx + 1
    /\ UNCHANGED <<xmi_vars, directories, files, Tables, pc, scan_ranges, tokens, metadata, web_annotations,
                   exported, steps, error, char_range, result>>

\* process_pagexml_files returns; ranges_per_scan
RangesPerScan ==
    /\ pc = "process_pagexml_files"
    /\ file_idx = Len(files)
    /\ scan_ranges' = ranges_per_scan(all_annotations)
    /\ pc' = "tokenize_per_paragraph"
    /\ steps' = steps \o <<"process_pagexml_files", "ranges_per_scan">>
    /\ UNCHANGED <<xmi_vars, directories, files, Tables, file_idx, start_offset, all_pars, all_annotations, tokens,
                   metadata, web_annotations, exported, error, char_range, result>>

TokenizePerParagraph ==
    /\ pc = "tokenize_per_paragraph"
    /\ \E seg \in Segmenters : tokens' = tokenize_per_paragraph(all_pars, seg)
    /\ pc' = "make_token_annotations"
    /\ steps' = Append(steps, "tokenize_per_paragraph")
    /\ UNCHANGED <<xmi_vars, directories, files, Tables, file_idx, start_offset, all_pars, all_annotations,
                   scan_ranges, metadata, web_annotations, exported, error, char_range,
                   result>>

MakeTokenAnnotations ==
    /\ pc = "make_token_annotations"
    /\ LET r == make_token_annotations(base_name, tokens, scan_ranges)
       IN  IF r.raised # ""
           THEN Raise(r.raised) /\ UNCHANGED <<all_annotations, steps>>
           ELSE /\ all_annotations' = all_annotations \o r.annotations
                /\ pc' = "add_tr_versions"
                /\ steps' = Append(steps, "make_token_annotations")
                /\ UNCHANGED error
    /\ UNCHANGED <<xmi_vars, directories, files, Tables, file_idx, start_offset, all_pars, scan_ranges, tokens,
                   metadata, web_annotations, exported, char_range, result>>

AddTrVersions ==
    /\ pc = "add_tr_versions"
    /\ IF base_name \notin DOMAIN tr_versions
       THEN Raise("KeyError") /\ UNCHANGED <<all_annotations, steps>>
       ELSE /\ all_annotations' = add_tr_versions(all_annotations, tr_versions[base_name])
            /\ pc' = "add_anchor_range"
            /\ steps' = Append(steps, "add_tr_versions")
            /\ UNCHANGED error
    /\ UNCHANGED <<xmi_vars, directories, files, Tables, file_idx, start_offset, all_pars, scan_ranges, tokens,
                   metadata, web_annotations, exported, char_range, result>>

AddAnchorRange ==
    /\ pc = "add_anchor_range"
    /\ all_annotations' = add_anchor_range(all_annotations, tokens)
    /\ pc' = "sort"
    /\ steps' = Append(steps, "add_anchor_range")
    /\ UNCHANGED <<xmi_vars, directories, files, Tables, file_idx, start_offset, all_pars, scan_ranges, tokens,
                   metadata, web_annotations, exported, error, char_range, result>>

\* the sort done before add_anchor_range
SortBeforeAnchors ==
    /\ pc = "add_anchor_range"
    /\ "sort" \notin { steps[k] : k \in 1..Len(steps) }
    /\ all_annotations' = sort_by_key(all_annotations)
    /\ steps' = Append(steps, "sort")
    /\ UNCHANGED <<xmi_vars, directories, files, Tables, pc, file_idx, start_offset, all_pars, scan_ranges, tokens,
                   metadata, web_annotations, exported, error, char_range, result>>

Sort ==
    /\ pc = "sort"
    /\ all_annotations' = sort_by_key(all_annotations)
    /\ pc' = "read_metadata"
    /\ steps' = Append(steps, "sort")
    /\ UNCHANGED <<xmi_vars, directories, files, Tables, file_idx, start_offset, all_pars, scan_ranges, tokens,
                   metadata, web_annotations, exported, error, char_range, result>>

\* read_metadata and the update of the record it returned, which is the record
\* held in metadata_records
ReadMetadata ==
    /\ pc = "read_metadata"
    /\ LET r == read_metadata(files[1].page_id, metadata_records)
       IN  IF r.raised # ""
           THEN Raise(r.raised) /\ UNCHANGED <<metadata_records, metadata, steps>>
           ELSE /\ metadata_records' =
                       [metadata_records EXCEPT
                           ![r.at] = metadata_update(@, all_annotations)]
                /\ metadata' = <<metadata_update(metadata_records[r.at], all_annotations)>>
                /\ pc' = "make_web_annotations"
                /\ steps' = Append(steps, "read_metadata")
                /\ UNCHANGED error
    /\ UNCHANGED <<xmi_vars, directories, files, tr_versions, iiif_base_url_idx, file_idx, start_offset, all_pars,
                   all_annotations, scan_ranges, tokens, web_annotations, exported,
                   char_range, result>>

MakeWebAnnotations ==
    /\ pc = "make_web_annotations"
    /\ IF \E k \in 1..Len(all_annotations) :
             /\ needs_iiif_base_url(all_annotations[k])
             /\ all_annotations[k].page_id \notin DOMAIN iiif_base_url_idx
       THEN Raise("KeyError") /\ UNCHANGED <<web_annotations, steps>>
       ELSE /\ web_annotations' = make_web_annotations(all_annotations, iiif_base_url_idx)
            /\ pc' = "export"
            /\ steps' = Append(steps, "make_web_annotations")
            /\ UNCHANGED error
    /\ UNCHANGED <<xmi_vars, directories, files, Tables, file_idx, start_offset, all_pars, all_annotations,
                   scan_ranges, tokens, metadata, exported, char_range, result>>

Export ==
    /\ pc = "export"
    /\ exported' = Append(exported,
                          [base_name |-> base_name,
                           all_text |-> join(all_pars),
                           tokens |-> tokens,
                           metadata |-> metadata[1],
                           web_annotations |-> web_annotations])
    /\ pc' = "done"
    /\ steps' = Append(steps, "export")
    /\ UNCHANGED <<xmi_vars, directories, files, Tables, file_idx, start_offset, all_pars, all_annotations,
                   scan_ranges, tokens, metadata, web_annotations, error, char_range,
                   result>>

Next ==
    \/ ProcessPagexmlFile
    \/ RangesPerScan
    \/ TokenizePerParagraph
    \/ MakeTokenAnnotations
    \/ AddTrVersions
    \/ AddAnchorRange
    \/ Sort
    \/ ReadMetadata
    \/ MakeWebAnnotations
    \/ Export

Spec == Init /\ [][Next]_vars

----------------------------------------------------------------------------
(* segment_range and add_anchor_range on their own: any token sequence with *)
(* ascending offsets of the real tokens, any character range                *)

TokenOffsets == {0, 1, 3, 7}

TokenSeqs ==
    UNION { { [k \in 1..n |-> IF o[k] < 0 THEN Sentinel ELSE GTToken(<<"a">>, <<"a">>, o[k])] :
              o \in { f \in [1..n -> TokenOffsets \cup {-1}] :
                        \A i, j \in 1..n : (i < j /\ f[i] >= 0 /\ f[j] >= 0) => f[i] < f[j] } } :
            n \in 0..MaxTokens }

RangeAnnotation(offset, length) ==
    paragraph_annotation(<<"p1", "p1">>, "p1", 1, offset, length, <<>>)

InitAnchor ==
    /\ files = <<>>
    /\ metadata_records = <<>>
    /\ tr_versions = TRVersionsTable
    /\ iiif_base_url_idx = IIIFTable
    /\ tokens \in TokenSeqs
    /\ \/ pc = "segment_range" /\ all_annotations = <<>>
       \/ /\ pc = "add_anchor_range"
          /\ all_annotations \in
                 { <<RangeAnnotation(o, l)>> : o \in 0..MaxOffset, l \in 0..MaxLength }
    /\ file_idx = 0
    /\ start_offset = 0
    /\ all_pars = <<>>
    /\ scan_ranges = EmptyDict
    /\ metadata = <<>>
    /\ web_annotations = <<>>
    /\ exported = <<>>
    /\ steps = <<>>
    /\ error = ""
    /\ char_range = <<>>
    /\ result = <<>>
    /\ directories = <<>>
    /\ NoXMI

SegmentRange ==
    /\ pc = "segment_range"
    /\ \E b, e \in 0..MaxOffset :
          /\ char_range' = <<b, e>>
          /\ result' = segment_range(tokens, b, e)
    /\ pc' = "returned"
    /\ UNCHANGED <<xmi_vars, directories, files, Tables, file_idx, start_offset, all_pars, all_annotations,
                   scan_ranges, tokens, metadata, web_annotations, exported, steps, error>>

NextAnchor == SegmentRange \/ AddAnchorRange

SpecAnchor == InitAnchor /\ [][NextAnchor]_vars

----------------------------------------------------------------------------
(* The sort on its own: any list of annotations *)

SortOffsets == {7, 999999, 1000000}
SortLengths == {5, 999, 1001, 1500}

SortAnnotations ==
    { paragraph_annotation(<<"p1", "p2">>, p, 1, o, l, <<>>) :
        p \in {"p1", "p2"}, o \in SortOffsets, l \in SortLengths }

InitSort ==
    /\ files = <<>>
    /\ metadata_records = <<>>
    /\ tr_versions = TRVersionsTable
    /\ iiif_base_url_idx = IIIFTable
    /\ tokens = <<>>
    /\ pc = "sort"
    /\ all_annotations \in UNION { [1..n -> SortAnnotations] : n \in 2..MaxSortLen }
    /\ file_idx = 0
    /\ start_offset = 0
    /\ all_pars = <<>>
    /\ scan_ranges = EmptyDict
    /\ metadata = <<>>
    /\ web_annotations = <<>>
    /\ exported = <<>>
    /\ steps = <<>>
    /\ error = ""
    /\ char_range = <<>>
    /\ result = <<>>
    /\ directories = <<>>
    /\ NoXMI

NextSort == Sort

SpecSort == InitSort /\ [][NextSort]_vars

----------------------------------------------------------------------------
(* Properties *)

Steps == { steps[k] : k \in 1..Len(steps) }

\* whether step a is in steps before the first step b
Precedes(a, b) ==
    \E j \in 1..Len(steps) : steps[j] = a /\ \A i \in 1..j : steps[i] # b

Annotations == { all_annotations[k] : k \in 1..Len(all_annotations) }

\* the text of the group so far, as export writes it
GlobalText == join(all_pars)

\* the words of file f appended one after the other
RunningText(f) ==
    join([i \in 1..Len(files[f].display_words) |-> files[f].display_words[i].text])

\* the text file f adds to the text of the group: its paragraphs
FileText(f) == join(paragraphs_of(RunningText(f)))

RECURSIVE TextLengthBefore(_)
TextLengthBefore(f) == IF f <= 1 THEN 0 ELSE TextLengthBefore(f - 1) + Len(FileText(f - 1))

RECURSIVE AnnotationsBefore(_)
AnnotationsBefore(f) ==
    IF f <= 1 THEN 0
    ELSE AnnotationsBefore(f - 1) + Len(process_pagexml(files[f - 1]).annotations)

\* position in the text of the group of display word i of file f
WordStart(f, i) ==
    TextLengthBefore(f)
    + Len(join([j \in 1..(i - 1) |-> files[f].display_words[j].text]))

WordEnd(f, i) == WordStart(f, i) + Len(strip(files[f].display_words[i].text))

\* the display word of file f that holds the PageXML word px
Holder(f, px) ==
    CHOOSE i \in 1..Len(files[f].display_words) :
        \E k \in 1..Len(files[f].display_words[i].px_words) :
            files[f].display_words[i].px_words[k].id = px

FileOf(page_id) == CHOOSE f \in 1..Len(files) : files[f].page_id = page_id

LayoutTypes == {"tt:Word", "px:TextLine", "px:TextRegion", "px:Page"}

\* the annotation list holds what process_pagexml_files put there, untouched
Accumulating == pc \in {"process_pagexml_files", "tokenize_per_paragraph",
                        "make_token_annotations"}

\* C1: every annotation of the k-th file is the annotation process_pagexml made
\* with its offset raised by the sum of the text lengths of the files before
\* it, and the lengths of the texts of the files add up to the length of the
\* text of the group.
C1_RebasedByPrecedingText ==
    Accumulating =>
        /\ \A f \in 1..file_idx :
              LET own == process_pagexml(files[f]).annotations
              IN  \A k \in 1..Len(own) :
                     all_annotations[AnnotationsBefore(f) + k]
                         = [own[k] EXCEPT !.offset = own[k].offset + TextLengthBefore(f)]
        /\ Len(all_annotations) = AnnotationsBefore(file_idx + 1)
        /\ Len(GlobalText) = TextLengthBefore(file_idx + 1)
        /\ start_offset = Len(GlobalText)

\* three files, the first and the third with a word: the word of the third is
\* rebased by the texts of two files
C1_Witness ==
    /\ pc = "tokenize_per_paragraph"
    /\ file_idx = 3
    /\ \E a, b \in Annotations :
          /\ a.type = "tt:Word" /\ a.id.prefix = "p1"
          /\ b.type = "tt:Word" /\ b.id.prefix = "p3"
          /\ b.offset = TextLengthBefore(3)
          /\ TextLengthBefore(3) > TextLengthBefore(2)
          /\ TextLengthBefore(2) > 1

\* C5: the text in the metadata of every word annotation is the stripped form
\* of text[offset:offset+length] of the unstripped text.
C5_WordTextRoundTrip ==
    \A a \in Annotations :
        a.type = "tt:Word" =>
            a.metadata.text = strip(slice(GlobalText, a.offset, a.offset + a.length))

\* what the range of a line or region annotation of file f must be
ElementRangeOk(f, a, elements) ==
    \E k \in 1..Len(elements) :
        /\ elements[k].id = a.id.key[1]
        /\ a.offset = WordStart(f, Holder(f, elements[k].first_word_id))
        /\ a.offset + a.length = WordEnd(f, Holder(f, elements[k].last_word_id))

LinesAndRegionsOk ==
    \A a \in Annotations :
        /\ a.type = "px:TextLine" =>
              ElementRangeOk(FileOf(a.id.prefix), a, files[FileOf(a.id.prefix)].px_text_lines)
        /\ a.type = "px:TextRegion" =>
              ElementRangeOk(FileOf(a.id.prefix), a, files[FileOf(a.id.prefix)].px_text_regions)

\* C6, as claimed: line, region and page annotations start at the offset of the
\* first word of the element and end at the end offset of its last word.
C6_ElementsSpanFirstToLastWord ==
    /\ LinesAndRegionsOk
    /\ \A a \in Annotations :
          (a.type = "px:Page" /\ files[FileOf(a.id.prefix)].display_words # <<>>) =>
              LET f == FileOf(a.id.prefix)
              IN  /\ a.offset = WordStart(f, 1)
                  /\ a.offset + a.length = WordEnd(f, Len(files[f].display_words))

\* C6, amended: line and region annotations start at the offset of the display
\* word that holds the first word of the element and end at the end offset of
\* the display word that holds its last word; a page annotation starts where
\* the text of its file starts and its length is the length of the running text
\* of the file plus one, the newline that ends the last paragraph.
C6_LinesRegionsSpanWordsPageSpansText ==
    /\ LinesAndRegionsOk
    /\ \A a \in Annotations :
          a.type = "px:Page" =>
              LET f == FileOf(a.id.prefix)
              IN  /\ a.offset = TextLengthBefore(f)
                  /\ a.length = Len(RunningText(f)) + 1

\* a line of two display words in the second file, rebased by the text of the first
C6_Witness ==
    /\ file_idx >= 2
    /\ \E a, b \in Annotations :
          /\ a.type = "px:TextLine" /\ a.id.prefix = "p2" /\ a.length >= 3
          /\ a.offset >= 1
          /\ b.type = "px:Page" /\ b.id.prefix = "p2" /\ b.length > a.length

RangesOverlap(b1, e1, b2, e2) == b1 < e2 /\ b2 < e1

\* C7: the page ranges in scan_ranges are in non-decreasing order of start in
\* file order and do not overlap, and the range of every word, line and region
\* annotation lies inside the page range of its own file and overlaps the page
\* range of no other file.
C7_PageRangesOrderedAndDisjoint ==
    (pc # "process_pagexml_files" /\ files # <<>>) =>
        /\ DOMAIN scan_ranges = { files[f].page_id : f \in 1..Len(files) }
        /\ \A f, g \in 1..Len(files) :
              f < g =>
                  LET rf == scan_ranges[files[f].page_id]
                      rg == scan_ranges[files[g].page_id]
                  IN  /\ rf[1] <= rg[1]
                      /\ ~RangesOverlap(rf[1], rf[2], rg[1], rg[2])
        /\ \A a \in Annotations :
              a.type \in {"tt:Word", "px:TextLine", "px:TextRegion"} =>
                  /\ scan_ranges[a.id.prefix][1] <= a.offset
                  /\ a.offset + a.length <= scan_ranges[a.id.prefix][2]
                  /\ \A q \in DOMAIN scan_ranges \ {a.id.prefix} :
                        ~RangesOverlap(a.offset, a.offset + a.length,
                                       scan_ranges[q][1], scan_ranges[q][2])

\* three page ranges, words in the second and the third file
C7_Witness ==
    /\ pc = "tokenize_per_paragraph"
    /\ Cardinality(DOMAIN scan_ranges) = 3
    /\ \E a, b \in Annotations :
          /\ a.type = "tt:Word" /\ a.id.prefix = "p2" /\ a.length > 0
          /\ b.type = "tt:Word" /\ b.id.prefix = "p3" /\ b.length > 0

Sentinels == { k \in 1..Len(tokens) : tokens[k].offset < 0 }

C9_SortBeforeAnchors ==
    /\ "add_anchor_range" \in Steps => Precedes("sort", "add_anchor_range")
    /\ "make_web_annotations" \in Steps =>
          Precedes("sort", "make_web_annotations")
          /\ Precedes("add_anchor_range", "make_web_annotations")
    /\ "export" \in Steps => Precedes("make_web_annotations", "export")

\* C9, amended: add_anchor_range is done before the sort, and both are done
\* before make_web_annotations, which is done before export.
C9_AnchorsBeforeSort ==
    /\ "sort" \in Steps => Precedes("add_anchor_range", "sort")
    /\ "make_web_annotations" \in Steps =>
          Precedes("sort", "make_web_annotations")
          /\ Precedes("add_anchor_range", "make_web_annotations")
    /\ "export" \in Steps => Precedes("make_web_annotations", "export")

\* a group exported, after all four steps
C9_Witness ==
    /\ pc = "done"
    /\ exported # <<>>
    /\ {"add_anchor_range", "sort", "make_web_annotations", "export"} \subseteq Steps

\* index (0-based, sentinels counted) of the last real token with Test, 0 when none
LastReal(Test(_)) ==
    LET S == { i \in 0..(Len(tokens) - 1) : tokens[i + 1].offset > -1 /\ Test(tokens[i + 1].offset) }
    IN  IF S = {} THEN 0 ELSE SetMax(S)

Returned == pc = "returned" /\ char_range[1] <= char_range[2]

\* C2: for a range begin <= end, segment_range returns the index of the last
\* real token whose offset is <= begin and the index of the last real token
\* whose offset is < end (0 where there is no such token), sentinels counted in
\* the indices; a token whose offset is end is not counted.
C2_SegmentRangeIndices ==
    Returned =>
        LET AtOrBeforeBegin(o) == o <= char_range[1]
            BeforeEnd(o) == o < char_range[2]
        IN  result = <<LastReal(AtOrBeforeBegin), LastReal(BeforeEnd)>>

\* tokens at 0, 3 and 7 and one sentinel, the range (0, 8): anchors (0, 2)
C2_Witness ==
    /\ pc = "returned"
    /\ tokens = << GTToken(<<"a">>, <<"a">>, 0), GTToken(<<"a">>, <<"a">>, 3),
                   GTToken(<<"a">>, <<"a">>, 7), Sentinel >>
    /\ char_range = <<0, 8>>
    /\ result = <<0, 2>>

\* C3: after add_anchor_range every annotation has begin_anchor <= end_anchor.
C3_AnchorsOrdered ==
    pc = "sort" => \A a \in Annotations : a.begin_anchor <= a.end_anchor

\* C10: for a range B and every range A inside it, the begin index of B is at
\* most the begin index of A and the end index of A is at most the end index
\* of B.
C10_SegmentRangeMonotonic ==
    Returned =>
        \A b, e \in 0..MaxOffset :
            (char_range[1] <= b /\ b <= e /\ e <= char_range[2]) =>
                LET inner == segment_range(tokens, b, e)
                IN  result[1] <= inner[1] /\ inner[2] <= result[2]

\* a range over three tokens and a sentinel between them, with anchors that
\* differ from the anchors of a range inside it
C10_Witness ==
    /\ pc = "returned"
    /\ Sentinels # {}
    /\ result[1] < result[2]
    /\ \E b, e \in 0..MaxOffset :
          /\ char_range[1] < b /\ b < e /\ e < char_range[2]
          /\ segment_range(tokens, b, e)[1] > result[1]
          /\ segment_range(tokens, b, e)[2] < result[2]

\* C8: after the sort, of two annotations of one page the one with the smaller
\* offset comes first, and of two with one offset the longer comes first.
C8_SortedByOffsetThenLongest ==
    pc = "read_metadata" =>
        \A i, j \in 1..Len(all_annotations) :
            (i < j /\ all_annotations[i].page_id = all_annotations[j].page_id) =>
                \/ all_annotations[i].offset < all_annotations[j].offset
                \/ /\ all_annotations[i].offset = all_annotations[j].offset
                   /\ all_annotations[i].length >= all_annotations[j].length

\* position in tokens (1-based) of the k-th sentinel
SentinelPos(k) ==
    CHOOSE p \in Sentinels : Cardinality({ q \in Sentinels : q <= p }) = k

\* offset in the text of the group at which paragraph k starts
ParagraphStart(k) == Len(join(SubSeq(all_pars, 1, k - 1)))

Tokenized == "tokenize_per_paragraph" \in Steps

\* C11: the token sequence holds one sentinel (offset -1) per paragraph; the
\* tokens before the k-th sentinel and after the one before it are the real
\* tokens of paragraph k, in document order, each with an offset >= 0 that is
\* its position in the paragraph plus the total length of the paragraphs before
\* it, so that the text of the group at that offset is the text of the token.
C11_TokensPerParagraph ==
    Tokenized =>
        /\ Cardinality(Sentinels) = Len(all_pars)
        /\ \A p \in 1..Len(tokens) : tokens[p].offset < 0 <=> tokens[p] = Sentinel
        /\ \A k \in 1..Len(all_pars) :
              LET lo == IF k = 1 THEN 0 ELSE SentinelPos(k - 1)
                  hi == SentinelPos(k)
              IN  /\ \A p \in (lo + 1)..(hi - 1) :
                        LET t == tokens[p]
                        IN  /\ t.offset >= 0
                            /\ ParagraphStart(k) <= t.offset
                            /\ t.offset + Len(t.text) <= ParagraphStart(k + 1)
                            /\ t.text # <<>>
                            /\ slice(GlobalText, t.offset, t.offset + Len(t.text)) = t.text
                  /\ \A p, q \in (lo + 1)..(hi - 1) :
                        p < q => tokens[p].offset + Len(tokens[p].text) <= tokens[q].offset
        /\ tokens # <<>> => tokens[Len(tokens)] = Sentinel

\* two paragraphs with a real token each: the token of the second is rebased
C11_Witness ==
    /\ Tokenized
    /\ Len(all_pars) >= 2
    /\ \E p, q \in 1..Len(tokens) :
          /\ p < q
          /\ tokens[p].offset = 0
          /\ \E s \in Sentinels : p < s /\ s < q
          /\ tokens[q].offset >= Len(all_pars[1])
          /\ tokens[q].offset > 0

----------------------------------------------------------------------------
(* get_page_id on its own: any ranges for up to two pages, any offset *)

PageRanges == { <<b, e>> : b \in 0..MaxRangeEnd, e \in 0..MaxRangeEnd }

ScanRanges ==
    UNION { [P -> PageRanges] : P \in { {}, {"p1"}, {"p2"}, {"p1", "p2"} } }

InitPageId ==
    /\ files = <<>>
    /\ metadata_records = <<>>
    /\ tr_versions = TRVersionsTable
    /\ iiif_base_url_idx = IIIFTable
    /\ tokens = <<>>
    /\ pc = "get_page_id"
    /\ all_annotations = <<>>
    /\ file_idx = 0
    /\ start_offset = 0
    /\ all_pars = <<>>
    /\ scan_ranges \in ScanRanges
    /\ metadata = <<>>
    /\ web_annotations = <<>>
    /\ exported = <<>>
    /\ steps = <<>>
    /\ error = ""
    /\ char_range = <<>>
    /\ result = <<>>
    /\ directories = <<>>
    /\ NoXMI

GetPageId ==
    /\ pc = "get_page_id"
    /\ \E offset \in 0..MaxRangeEnd, length \in 0..MaxLength :
          /\ char_range' = <<offset, length>>
          /\ result' = <<get_page_id(offset, length, scan_ranges)>>
    /\ pc' = "returned"
    /\ UNCHANGED <<xmi_vars, directories, files, Tables, file_idx, start_offset, all_pars,
                   all_annotations, scan_ranges, tokens, metadata, web_annotations, exported,
                   steps, error>>

NextPageId == GetPageId

SpecPageId == InitPageId /\ [][NextPageId]_vars

\* the pages whose recorded range holds the offset
PagesHolding(offset) ==
    { p \in DOMAIN scan_ranges : scan_ranges[p][1] <= offset /\ offset < scan_ranges[p][2] }

\* C12: get_page_id returns the page whose recorded range holds the start
\* offset when exactly one does, and the placeholder page id when none or more
\* than one does; it returns in every case.
C12_UniquePageOrPlaceholder ==
    (pc = "returned" /\ Len(char_range) = 2 /\ Len(result) = 1) =>
        LET holding == PagesHolding(char_range[1])
        IN  /\ Cardinality(holding) = 1 => result[1] \in holding
            /\ Cardinality(holding) # 1 => result[1] = PLACEHOLDER

\* the ranges of two pages overlap at the offset: the placeholder is returned
C12_Witness ==
    /\ pc = "returned"
    /\ Len(result) = 1
    /\ Cardinality(PagesHolding(char_range[1])) = 2
    /\ scan_ranges["p1"] # scan_ranges["p2"]
    /\ result[1] = PLACEHOLDER

----------------------------------------------------------------------------
(* Targets *)

TargetsOf(k) == { web_annotations[k].target[i] : i \in 1..Len(web_annotations[k].target) }

\* C13: the target list of every annotation holds the Text target with the
\* anchor selector and the cutout Text target of its anchor range, and, for
\* an annotation whose txt_version_id add_tr_versions has set, a Text target
\* on that version with a FragmentSelector of character offsets.
C13_TextTargetsWithFragment ==
    (pc \in {"export", "done"} /\ Len(web_annotations) = Len(all_annotations)) =>
        \A k \in 1..Len(all_annotations) :
            LET a == all_annotations[k]
                anchors == <<a.begin_anchor, a.end_anchor>>
            IN  /\ \E t \in TargetsOf(k) :
                      /\ t.type = "Text"
                      /\ t.source = Source("rest", a.segmented_version_id, <<>>, <<>>)
                      /\ t.selector = <<Selector("urn:republic:TextAnchorSelector", anchors, <<>>)>>
                /\ \E t \in TargetsOf(k) :
                      /\ t.type = "Text"
                      /\ t.source = Source("view", a.segmented_version_id, <<>>, anchors)
                /\ a.txt_version_id # "" =>
                      \E t \in TargetsOf(k) :
                          /\ t.type = "Text"
                          /\ t.source = Source("rest", a.txt_version_id, <<>>, <<>>)
                          /\ \E i \in 1..Len(t.selector) : t.selector[i].type = "FragmentSelector"

----------------------------------------------------------------------------
(* annotation_targets on its own: one annotation with any list of polygons *)

RECTANGLE == << <<0, 0>>, <<10, 0>>, <<10, 5>>, <<0, 5>> >>

TargetPolygons ==
    { RECTANGLE, Polygon(1), << <<3, 7>>, <<30, 2>>, <<12, 40>> >>, << <<5, 5>> >> }

\* p9 is a page the IIIF mapping file does not list
TargetPages == {"p1", "p2", "p9"}

\* word annotations with the polygons of their PageXML words, and line
\* annotations with their one polygon, versions and anchors set
TargetAnnotations ==
    { [Annotation(type, [prefix |-> p, kind |-> "element", key |-> <<1>>], p, 0, 1,
                  [has_text |-> TRUE, text |-> <<"a">>, has_coords |-> TRUE, coords |-> c])
          EXCEPT !.segmented_version_id = "segmented-version",
                 !.txt_version_id = "txt-version"] :
        p \in TargetPages,
        type \in {"tt:Word", "px:TextLine"},
        c \in UNION { [1..n -> TargetPolygons] : n \in 1..MaxPolygons } }

InitTargets ==
    /\ files = <<>>
    /\ metadata_records = <<>>
    /\ tr_versions = TRVersionsTable
    /\ iiif_base_url_idx = IIIFTable
    /\ tokens = <<>>
    /\ pc = "make_web_annotations"
    /\ \E a \in TargetAnnotations :
          /\ a.type = "px:TextLine" => Len(a.metadata.coords) = 1
          /\ all_annotations = <<a>>
    /\ file_idx = 0
    /\ start_offset = 0
    /\ all_pars = <<>>
    /\ scan_ranges = EmptyDict
    /\ metadata = <<>>
    /\ web_annotations = <<>>
    /\ exported = <<>>
    /\ steps = <<>>
    /\ error = ""
    /\ char_range = <<>>
    /\ result = <<>>
    /\ directories = <<>>
    /\ NoXMI

NextTargets == MakeWebAnnotations

SpecTargets == InitTargets /\ [][NextTargets]_vars

\* "x,y,w,h" of the bounding box of a polygon
RegionOf(points) ==
    LET left == SetMin(xs(points))
        top == SetMin(ys(points))
    IN  join_with(<<str(left), str(top), str(SetMax(xs(points)) - left),
                    str(SetMax(ys(points)) - top)>>, <<",">>)

\* "x y" of a point
PointOf(point) == str(point[1]) \o <<SP>> \o str(point[2])

\* the closed path of a polygon: M to its first point, L to each further point, Z
RECURSIVE LinesTo(_)
LinesTo(points) ==
    IF points = <<>> THEN <<>>
    ELSE <<SP, "L">> \o PointOf(Head(points)) \o LinesTo(Tail(points))

ClosedPath(points) == <<"M">> \o PointOf(points[1]) \o LinesTo(Tail(points)) \o <<SP, "Z">>

\* the SVG selector of a list of polygons
SvgOf(coords) ==
    [type |-> "SvgSelector",
     value |-> << SetMax(UNION { ys(coords[k]) : k \in 1..Len(coords) }),
                  SetMax(UNION { xs(coords[k]) : k \in 1..Len(coords) }) >>,
     path |-> join_with([k \in 1..Len(coords) |-> ClosedPath(coords[k])], <<SP>>)]

StartsWith(s, prefix) == Len(s) >= Len(prefix) /\ SubSeq(s, 1, Len(prefix)) = prefix

\* the annotations with polygons that have their targets
WithTargets ==
    { k \in 1..Len(web_annotations) :
        /\ Len(web_annotations) = Len(all_annotations)
        /\ all_annotations[k].metadata.has_coords
        /\ all_annotations[k].metadata.coords # <<>> }

\* what the claim and its amendment share: n Image targets with the region of
\* the bounding box of their polygon, then one Image target on the whole
\* image, then one Canvas target with the n regions and the SVG selector, and
\* no further Image or Canvas target; the values of the rectangle
RegionsCombinedCanvas(k) ==
    LET a == all_annotations[k]
        coords == a.metadata.coords
        n == Len(coords)
        t == web_annotations[k].target
        iiif == iiif_base_url_idx[a.page_id]
    IN  /\ Len(t) >= n + 2
        /\ \A i \in 1..n :
              /\ t[i].type = "Image"
              /\ t[i].source = Source("iiif", iiif, RegionOf(coords[i]), <<>>)
              /\ coords[i] = RECTANGLE =>
                    t[i].source.region = <<"0", ",", "0", ",", "1", "0", ",", "5">>
        /\ t[n + 1].type = "Image"
        /\ t[n + 1].source = Source("iiif", iiif, FULL, <<>>)
        /\ t[n + 2].type = "Canvas"
        /\ t[n + 2].source = Source("canvas", a.page_id, <<>>, <<>>)
        /\ t[n + 2].selector =
               [i \in 1..n |-> Selector("iiif:ImageApiSelector", RegionOf(coords[i]), <<>>)]
               \o <<SvgOf(coords)>>
        /\ \A i \in (n + 3)..Len(t) : t[i].type \notin {"Image", "Canvas"}
        /\ coords[1] = RECTANGLE =>
              /\ StartsWith(SvgOf(coords).path, <<"M", "0", SP, "0">>)
              /\ SvgOf(coords).path[Len(SvgOf(coords).path)] = "Z"

\* C14, as claimed: the selector of the combined Image target is the SVG
\* selector built from all n polygons.
C14_CombinedTargetHasSvgSelector ==
    \A k \in WithTargets :
        /\ RegionsCombinedCanvas(k)
        /\ web_annotations[k].target[Len(all_annotations[k].metadata.coords) + 1].selector
               = <<SvgOf(all_annotations[k].metadata.coords)>>

\* C14, amended: the n Image targets carry the region of the bounding box in
\* their source and no selector; the selector of the combined Image target is
\* a list of n FragmentSelectors "xywh=" + region, one per polygon, followed by
\* the SVG selector built from all n polygons; the Canvas target follows.
C14_CombinedTargetHasFragmentsAndSvg ==
    \A k \in WithTargets :
        LET coords == all_annotations[k].metadata.coords
            n == Len(coords)
            t == web_annotations[k].target
        IN  /\ RegionsCombinedCanvas(k)
            /\ \A i \in 1..n : t[i].selector = <<>>
            /\ t[n + 1].selector =
                   [i \in 1..n |-> Selector("FragmentSelector",
                                            <<"x", "y", "w", "h", "=">> \o RegionOf(coords[i]),
                                            <<>>)]
                   \o <<SvgOf(coords)>>
            /\ \A i \in 1..n :
                  coords[i] = RECTANGLE =>
                      t[n + 1].selector[i].value
                          = <<"x", "y", "w", "h", "=", "0", ",", "0", ",", "1", "0", ",", "5">>

\* a word with two polygons, the rectangle first, on a known page
C14_Witness ==
    /\ pc = "export"
    /\ WithTargets = {1}
    /\ Len(all_annotations[1].metadata.coords) = 2
    /\ all_annotations[1].metadata.coords[1] = RECTANGLE
    /\ all_annotations[1].metadata.coords[2] # RECTANGLE
    /\ Len(web_annotations[1].target) = 6
    /\ web_annotations[1].target[3].selector[3].path
           = <<"M", "0", SP, "0", SP, "L", "1", "0", SP, "0", SP, "L", "1", "0", SP, "5",
               SP, "L", "0", SP, "5", SP, "Z">>
              \o <<SP>> \o ClosedPath(all_annotations[1].metadata.coords[2])

----------------------------------------------------------------------------
(* Metadata and lookup tables *)

\* more than one metadata record matches the first scan of the unit
Ambiguous ==
    /\ files # <<>>
    /\ Cardinality(relevant_records(files[1].page_id, metadata_records)) > 1

\* C18: for a unit that more than one metadata record matches, read_metadata
\* raises and returns no record, and ends process_directory_group before
\* make_web_annotations and export: nothing is written for the unit.
C18_AmbiguousMetadataRaises ==
    Ambiguous =>
        /\ metadata = <<>>
        /\ exported = <<>>
        /\ web_annotations = <<>>
        /\ pc \notin {"make_web_annotations", "export", "done"}
        /\ ("sort" \in Steps /\ pc # "read_metadata") => (pc = "raised" /\ error = "TypeError")

\* read_metadata called with two matching records
C18_Witness ==
    /\ Ambiguous
    /\ "sort" \in Steps
    /\ pc = "raised"
    /\ error = "TypeError"
    /\ exported = <<>>

\* C19: no step of the processing of a unit changes metadata_records,
\* iiif_base_url_idx or tr_versions.
C19_TablesReadOnly == [][Tables' = Tables]_vars

\* indices (0-based, sentinels counted) of the real tokens
RealTokens == { i \in 0..(Len(tokens) - 1) : tokens[i + 1].offset >= 0 }

\* C20: once make_token_annotations is over, there is for every real token at
\* index i one token annotation with token_num i, the offset of the token and
\* the length of its text, and once add_anchor_range is over its begin_anchor
\* and end_anchor are i.
C20_TokenAnnotationPerToken ==
    (Tokenized /\ pc # "make_token_annotations") =>
        \A i \in RealTokens :
            LET made == { k \in 1..Len(all_annotations) :
                            /\ all_annotations[k].type = "tt:Token"
                            /\ all_annotations[k].id.key = <<i>> }
            IN  /\ Cardinality(made) = 1
                /\ \A k \in made :
                      /\ all_annotations[k].offset = tokens[i + 1].offset
                      /\ all_annotations[k].length = Len(tokens[i + 1].text)
                      /\ "add_anchor_range" \in Steps =>
                            /\ all_annotations[k].begin_anchor = i
                            /\ all_annotations[k].end_anchor = i

----------------------------------------------------------------------------
(* process: the loop over the directory groups *)

\* the k-th directory group: one file with at most one display word
UnitGroups(k) ==
    { <<Layout(shapes, PageIds[k])>> : shapes \in UNION { [1..n -> WordShapes] : n \in 0..1 } }

\* the lists of directory groups process is called with
UnitLists ==
    UNION { { u \in [1..n -> UNION { UnitGroups(k) : k \in 1..n }] :
                \A k \in 1..n : u[k] \in UnitGroups(k) } : n \in 1..MaxUnits }

InitProcess ==
    /\ \E u \in UnitLists :
          /\ files = Head(u)
          /\ directories = Tail(u)
    /\ metadata_records \in MetadataTables
    /\ tr_versions = TRVersionsTable
    /\ iiif_base_url_idx = IIIFTable
    /\ pc = "process_pagexml_files"
    /\ file_idx = 0
    /\ start_offset = 0
    /\ all_pars = <<>>
    /\ all_annotations = <<>>
    /\ scan_ranges = EmptyDict
    /\ tokens = <<>>
    /\ metadata = <<>>
    /\ web_annotations = <<>>
    /\ exported = <<>>
    /\ steps = <<>>
    /\ error = ""
    /\ char_range = <<>>
    /\ result = <<>>
    /\ NoXMI

\* process_directory_group has returned: the loop of process calls it for the
\* next directory group
ProcessDirectoryGroup ==
    /\ pc = "done"
    /\ directories # <<>>
    /\ files' = Head(directories)
    /\ directories' = Tail(directories)
    /\ pc' = "process_pagexml_files"
    /\ file_idx' = 0
    /\ start_offset' = 0
    /\ all_pars' = <<>>
    /\ all_annotations' = <<>>
    /\ scan_ranges' = EmptyDict
    /\ tokens' = <<>>
    /\ metadata' = <<>>
    /\ web_annotations' = <<>>
    /\ steps' = <<>>
    /\ UNCHANGED <<xmi_vars, Tables, exported, error, char_range, result>>

NextProcess ==
    \/ ProcessPagexmlFile
    \/ RangesPerScan
    \/ TokenizePerParagraph
    \/ MakeTokenAnnotations
    \/ AddTrVersions
    \/ AddAnchorRange
    \/ Sort
    \/ ReadMetadata
    \/ MakeWebAnnotations
    \/ Export
    \/ ProcessDirectoryGroup

SpecProcess == InitProcess /\ [][NextProcess]_vars

\* C17: an exception raised in the processing of one unit does not end the
\* run while units are left: the run is never stopped by an exception with a
\* later unit unprocessed.
C17_LaterUnitsProcessed == pc = "raised" => directories = <<>>

----------------------------------------------------------------------------
(* gt-xmi-to-wa.py: XMIProcessor *)

max_fix_len == 20

NAMED_ENTITY == "de.tudarmstadt.ukp.dkpro.core.api.ner.type.NamedEntity"
SEM_PRED == "webanno.custom.SemPredGLOB"
ARGUMENTS_LINK == "webanno.custom.SemPredGLOBArgumentsLink"

\* the sofa strings of the XMI files
XmiTexts == { <<"a", "b", SP, "c">>, <<"a", NL, "b", "c">> }

\* hashlib.md5(text.encode()).hexdigest(): a digest that differs where the
\* texts differ
md5(text) == <<"md5:">> \o text

\* the digest of a text that no XMI file holds
UnknownMd5 == md5(<<"z">>)

\* the provenance intervals a document-data record can hold: begin, end and
\* the data of the scan region the characters come from
AllIntervals ==
    [k \in 1..4 |->
        [begin |-> <<0, 2, 2, 1>>[k], end |-> <<2, 4, 4, 3>>[k],
         data |-> [iiif_base_uri |-> <<"iiif-p1", "iiif-p2", "iiif-p3", "iiif-p2">>[k],
                   canvas_id |-> <<"canvas-p1", "canvas-p2", "canvas-p3", "canvas-p2">>[k],
                   coords |-> Polygon(k)]]]

\* the elements of s at the positions in P, in order
RECURSIVE Sublist(_, _)
Sublist(s, P) ==
    IF s = <<>> THEN <<>>
    ELSE (IF Len(s) \in P THEN Sublist(SubSeq(s, 1, Len(s) - 1), P) \o <<s[Len(s)]>>
          ELSE Sublist(SubSeq(s, 1, Len(s) - 1), P))

IntervalLists ==
    { Sublist(AllIntervals, P) :
        P \in { Q \in SUBSET (1..Len(AllIntervals)) : Cardinality(Q) <= MaxIntervals } }

DocumentRecord(checksum, source, intervals) ==
    [plain_text_md5 |-> checksum, plain_text_source |-> source, text_intervals |-> intervals]

\* data/document_data.json: no record, one record for the first text, one
\* record for another text, two records for the first text
DocumentDataTables ==
    { <<>>, << DocumentRecord(UnknownMd5, "doc-0", AllIntervals) >> }
    \cup { << DocumentRecord(md5(<<"a", "b", SP, "c">>), "doc-1", ivs) >> : ivs \in IntervalLists }
    \cup { << DocumentRecord(md5(<<"a", "b", SP, "c">>), "doc-1", ivs),
              DocumentRecord(md5(<<"a", "b", SP, "c">>), "doc-2", <<>>) >> : ivs \in IntervalLists }

\* a feature structure of the CAS; has_range is whether it has begin and end
\* of its own, target is the list of 0 or 1 feature structure its target
\* feature refers to
FeatureStructure(xmiID, type, has_range, range, value, arguments, target) ==
    [xmiID |-> xmiID, type |-> type, has_range |-> has_range,
     begin |-> range[1], end |-> range[2], value |-> value,
     category |-> <<"A", "+", "b">>, relationtype |-> <<"r">>, role |-> <<"o">>,
     arguments |-> arguments, target |-> target]

TokenFS(range) == FeatureStructure(90, "Token", TRUE, range, "", <<>>, <<>>)

LinkFS(range) ==
    FeatureStructure(80, ARGUMENTS_LINK, FALSE, <<0, 0>>, "", <<>>, <<TokenFS(range)>>)

\* the annotations of the first view: named entities (one without a value)
\* and event predicates without and with an argument
AllAnnotations ==
    << FeatureStructure(1, NAMED_ENTITY, TRUE, <<0, 2>>, "LOC_NAME", <<>>, <<>>),
       FeatureStructure(2, NAMED_ENTITY, TRUE, <<1, 3>>, "ORG", <<>>, <<>>),
       FeatureStructure(3, NAMED_ENTITY, TRUE, <<3, 4>>, "LOC_NAME", <<>>, <<>>),
       FeatureStructure(4, NAMED_ENTITY, TRUE, <<2, 2>>, "ORG", <<>>, <<>>),
       FeatureStructure(5, NAMED_ENTITY, TRUE, <<1, 4>>, "", <<>>, <<>>),
       FeatureStructure(6, SEM_PRED, TRUE, <<2, 4>>, "", <<>>, <<>>),
       FeatureStructure(7, SEM_PRED, TRUE, <<1, 2>>, "", <<LinkFS(<<0, 2>>)>>, <<>>),
       FeatureStructure(8, SEM_PRED, TRUE, <<0, 1>>, "", <<LinkFS(<<1, 3>>)>>, <<>>),
       FeatureStructure(9, SEM_PRED, TRUE, <<3, 4>>, "", <<LinkFS(<<1, 3>>), LinkFS(<<3, 4>>)>>, <<>>) >>

\* an XMI file: the name it is written under, its sofa string and annotations
XmiFile(n, text, annotations) ==
    [basename |-> <<"xmi", n>>, text |-> text, annotations |-> annotations]

\* the XMI files extract_web_annotations is called with: any first file, the
\* later ones without annotations at character 0
XmiPathLists ==
    UNION { { [k \in 1..n |->
                 IF k = 1 THEN XmiFile(1, text, Sublist(AllAnnotations, P))
                 ELSE XmiFile(k, <<"a", "b", SP, "c">>,
                              IF later[k] THEN <<AllAnnotations[2]>> ELSE <<>>)] :
              text \in XmiTexts,
              P \in { Q \in SUBSET (1..Len(AllAnnotations)) :
                        Cardinality(Q) <= MaxFeatureStructures },
              later \in [1..n -> BOOLEAN] } : n \in 1..MaxXmiPaths }

\* XMIProcessor.__init__ with the data of the first record although no record
\* has the checksum of the text
XMIProcessor_any_record(document_data_, xmi) ==
    LET data == IF document_data_ # <<>> THEN <<document_data_[1]>> ELSE <<>>
    IN  [xmi_path |-> xmi.basename, cas |-> xmi.annotations, text |-> xmi.text,
         text_len |-> Len(xmi.text),
         plain_text_source |-> IF data # <<>> THEN data[1].plain_text_source
                               ELSE "urn:placeholder",
         itree |-> IF data # <<>>
                   THEN { data[1].text_intervals[k] : k \in 1..Len(data[1].text_intervals) }
                   ELSE {}]

\* XMIProcessor.__init__
XMIProcessor(document_data_, xmi) ==
    LET checksum == md5(xmi.text)
        data == SelectSeq(document_data_, LAMBDA d : d.plain_text_md5 = checksum)
    IN  [xmi_path |-> xmi.basename, cas |-> xmi.annotations, text |-> xmi.text,
         text_len |-> Len(xmi.text),
         plain_text_source |-> IF data # <<>> THEN data[1].plain_text_source
                               ELSE "urn:placeholder",
         itree |-> IF data # <<>>
                   THEN { data[1].text_intervals[k] : k \in 1..Len(data[1].text_intervals) }
                   ELSE {}]

\* FeatureStructure.get_covered_text
get_covered_text(text, a) == slice(text, a.begin, a.end)

\* str.replace('\n', ' ')
replace_nl(s) == [k \in 1..Len(s) |-> IF s[k] = NL THEN SP ELSE s[k]]

\* str.rfind(c, lo, hi)
rfind(s, c, lo, hi) ==
    LET found == { i \in lo..(Min(hi, Len(s)) - 1) : s[i + 1] = c }
    IN  IF found = {} THEN -1 ELSE SetMax(found)

_get_prefix(self, a) ==
    LET extended_prefix_begin == Max(0, a.begin - max_fix_len * 2)
        extended_prefix == replace_nl(lstrip(slice(self.text, extended_prefix_begin, a.begin)))
        first_space_index == rfind(extended_prefix, SP, 0, max_fix_len)
    IN  IF first_space_index # -1
        THEN slice(extended_prefix, first_space_index + 1, Len(extended_prefix))
        ELSE extended_prefix

_get_suffix(self, a) ==
    LET extended_suffix_end == Min(self.text_len, a.end + max_fix_len * 2)
        extended_suffix == replace_nl(rstrip(slice(self.text, a.end, extended_suffix_end)))
        last_space_index == rfind(extended_suffix, SP, 0, max_fix_len)
    IN  IF last_space_index # -1
        THEN slice(extended_suffix, 0, last_space_index)
        ELSE extended_suffix

_to_xywh(coords) ==
    LET min_x == SetMin(xs(coords))
        min_y == SetMin(ys(coords))
        w == SetMax(xs(coords)) - min_x
        h == SetMax(ys(coords)) - min_y
    IN  str(min_x) \o <<",">> \o str(min_y) \o <<",">> \o str(w) \o <<",">> \o str(h)

_image_target(iiif_base_uri, xywh) ==
    Target("Image", Source("iiif", iiif_base_uri, xywh, <<>>), "none", <<>>)

_image_selector_target(iiif_base_uri, xywh) ==
    Target("Image", Source("iiif", iiif_base_uri, FULL, <<>>), "one",
           << Selector("FragmentSelector", XYWH_IS \o xywh, <<>>) >>)

_canvas_target(canvas_source, xywh) ==
    Target("Canvas", canvas_source, "one", << Selector("iiif:ImageApiSelector", xywh, <<>>) >>)

\* IntervalTree.__getitem__ with a slice: the intervals that overlap [begin, end)
overlap(itree, begin, end) ==
    IF begin >= end THEN {}
    ELSE { iv \in itree : iv.begin < end /\ iv.end > begin }

\* position of an interval among the intervals of the model
Rank(iv) == CHOOSE k \in 1..Len(AllIntervals) : AllIntervals[k] = iv

\* Interval.__lt__: by begin, then by end; the data are dicts, which have no
\* order, so two intervals with one begin and end come in either order (tie)
interval_le(x, y, tie) ==
    \/ x.begin < y.begin
    \/ /\ x.begin = y.begin
       /\ \/ x.end < y.end
          \/ x.end = y.end /\ (x = y \/ ((Rank(x) < Rank(y)) = tie))

RECURSIVE sorted_intervals(_, _)
sorted_intervals(S, tie) ==
    IF S = {} THEN <<>>
    ELSE LET first == CHOOSE x \in S : \A y \in S : interval_le(x, y, tie)
         IN  <<first>> \o sorted_intervals(S \ {first}, tie)

\* the loop of _as_web_annotation over the sorted overlapping intervals
RECURSIVE interval_targets(_)
interval_targets(ivs) ==
    IF ivs = <<>> THEN <<>>
    ELSE LET iv_data == Head(ivs).data
             xywh == _to_xywh(iv_data.coords)
         IN  << _image_target(iv_data.iiif_base_uri, xywh),
                _image_selector_target(iv_data.iiif_base_uri, xywh),
                _canvas_target(iv_data.canvas_id, xywh) >>
             \o interval_targets(Tail(ivs))

\* not feature_structure['begin']: no begin, or begin 0
begin_is_falsy(feature_structure) ==
    ~feature_structure.has_range \/ feature_structure.begin = 0

\* _as_web_annotation: the Web Annotation, or the exception raised where the
\* feature structure is replaced by a target it does not have.  The time of
\* generation is left out.
_as_web_annotation(self, feature_structure, body, tie) ==
    IF begin_is_falsy(feature_structure) /\ feature_structure.target = <<>>
    THEN [raised |-> "AttributeError", web_annotations |-> <<>>]
    ELSE LET fs == IF begin_is_falsy(feature_structure)
                   THEN feature_structure.target[1] ELSE feature_structure
             text_quote_selector ==
                 Selector("TextQuoteSelector", get_covered_text(self.text, fs),
                          <<_get_prefix(self, fs), _get_suffix(self, fs)>>)
             overlapping_intervals == overlap(self.itree, fs.begin, fs.end)
             targets ==
                 << Target("", self.plain_text_source, "list",
                           << text_quote_selector,
                              Selector("TextPositionSelector", <<fs.begin, fs.end>>, <<>>) >>) >>
                 \o interval_targets(sorted_intervals(overlapping_intervals, tie))
         IN  [raised |-> "",
              web_annotations |->
                  << [id |-> feature_structure.xmiID, body |-> body, target |-> targets] >>]

\* str.replace("+", "Plus").replace("-", "Min")
replace_plus_min(s) ==
    join([k \in 1..Len(s) |->
            IF s[k] = "+" THEN <<"P", "l", "u", "s">>
            ELSE IF s[k] = "-" THEN <<"M", "i", "n">> ELSE <<s[k]>>])

_named_entity_body(feature_structure) ==
    << [purpose |-> "classifying", source |-> <<"ner:", feature_structure.value>>] >>

_event_predicate_body(feature_structure) ==
    << [purpose |-> "classifying",
        source |-> <<"wiki#">> \o replace_plus_min(feature_structure.category)],
       [purpose |-> "classifying", source |-> <<"wiki#">> \o feature_structure.relationtype] >>

_event_argument_body(feature_structure) ==
    << [purpose |-> "classifying", source |-> <<"wiki#">> \o feature_structure.role] >>

\* the calls of _as_web_annotation get_named_entity_annotations makes
named_entity_calls(self) ==
    LET selected == SelectSeq(self.cas, LAMBDA a : a.type = NAMED_ENTITY /\ a.value # "")
    IN  [k \in 1..Len(selected) |->
            [feature_structure |-> selected[k], body |-> _named_entity_body(selected[k])]]

\* the calls get_event_annotations makes: one for each event predicate, then
\* one for each of its arguments
RECURSIVE event_calls_of(_)
event_calls_of(event_annotations) ==
    IF event_annotations = <<>> THEN <<>>
    ELSE LET a == Head(event_annotations)
         IN  << [feature_structure |-> a, body |-> _event_predicate_body(a)] >>
             \o [k \in 1..Len(a.arguments) |->
                    [feature_structure |-> a.arguments[k],
                     body |-> _event_argument_body(a.arguments[k])]]
             \o event_calls_of(Tail(event_annotations))

event_calls(self) == event_calls_of(SelectSeq(self.cas, LAMBDA a : a.type = SEM_PRED))

\* the calls get_event_argument_annotations makes
event_argument_calls(self) ==
    LET selected == SelectSeq(self.cas, LAMBDA a : a.type = ARGUMENTS_LINK)
    IN  [k \in 1..Len(selected) |->
            [feature_structure |-> selected[k], body |-> _event_argument_body(selected[k])]]

\* the calls one after the other, up to the first that raises
RECURSIVE as_web_annotations(_, _, _, _)
as_web_annotations(self, calls, tie, acc) ==
    IF calls = <<>> THEN [raised |-> "", web_annotations |-> acc]
    ELSE LET r == _as_web_annotation(self, Head(calls).feature_structure, Head(calls).body, tie)
         IN  IF r.raised # "" THEN [raised |-> r.raised, web_annotations |-> <<>>]
             ELSE as_web_annotations(self, Tail(calls), tie, acc \o r.web_annotations)

get_named_entity_annotations(self, tie) ==
    as_web_annotations(self, named_entity_calls(self), tie, <<>>)

get_event_annotations(self, tie) == as_web_annotations(self, event_calls(self), tie, <<>>)

get_event_argument_annotations(self, tie) ==
    as_web_annotations(self, event_argument_calls(self), tie, <<>>)

\* a['target'][0]['selector'][1]['start']
start_key(a) == a.target[1].selector[2].value[1]

RECURSIVE insert_by_start(_, _)
insert_by_start(sorted, a) ==
    IF sorted = <<>> THEN <<a>>
    ELSE IF start_key(a) < start_key(Head(sorted)) THEN <<a>> \o sorted
    ELSE <<Head(sorted)>> \o insert_by_start(Tail(sorted), a)

\* list.sort(key=...), stable
RECURSIVE sort_by_start(_)
sort_by_start(web_annotations_) ==
    IF web_annotations_ = <<>> THEN <<>>
    ELSE insert_by_start(sort_by_start(SubSeq(web_annotations_, 1, Len(web_annotations_) - 1)),
                         web_annotations_[Len(web_annotations_)])

----------------------------------------------------------------------------
(* gt-xmi-to-wa.py: extract_web_annotations, the loop over the XMI files *)

InitXMI ==
    /\ files = <<>>
    /\ metadata_records = <<>>
    /\ tr_versions = TRVersionsTable
    /\ iiif_base_url_idx = IIIFTable
    /\ tokens = <<>>
    /\ pc = "get_xmi_processor"
    /\ all_annotations = <<>>
    /\ file_idx = 0
    /\ start_offset = 0
    /\ all_pars = <<>>
    /\ scan_ranges = EmptyDict
    /\ metadata = <<>>
    /\ web_annotations = <<>>
    /\ exported = <<>>
    /\ steps = <<>>
    /\ error = ""
    /\ char_range = <<>>
    /\ result = <<>>
    /\ directories = <<>>
    /\ document_data \in DocumentDataTables
    /\ xmi_paths \in XmiPathLists
    /\ xp = <<>>
    /\ written = <<>>

\* the state of globalise-extract-text.py but pc, error and web_annotations
extract_vars ==
    <<files, Tables, file_idx, start_offset, all_pars, all_annotations, scan_ranges, tokens,
      metadata, exported, steps, char_range, result, directories>>

\* xpf.get_xmi_processor(xmi_path) and the writing of the plain text
GetXmiProcessor ==
    /\ pc = "get_xmi_processor"
    /\ xmi_paths # <<>>
    /\ xp' = <<XMIProcessor(document_data, Head(xmi_paths))>>
    /\ written' = Append(written, [path |-> Head(xmi_paths).basename \o <<"plain-text.txt">>,
                                   content |-> xp'[1].text])
    /\ pc' = "get_web_annotations"
    /\ UNCHANGED <<extract_vars, document_data, xmi_paths, web_annotations, error>>

\* the three get_..._annotations calls, the sort and the writing of the Web
\* Annotations of one XMI file; an exception leaves the loop and is caught and
\* logged by the logger.catch around extract_web_annotations, which returns
GetWebAnnotations ==
    /\ pc = "get_web_annotations"
    /\ \E tie \in BOOLEAN :
          LET nea == get_named_entity_annotations(xp[1], tie)
              eva == get_event_annotations(xp[1], tie)
              eaa == get_event_argument_annotations(xp[1], tie)
              raised == IF nea.raised # "" THEN nea.raised
                        ELSE IF eva.raised # "" THEN eva.raised ELSE eaa.raised
              all_web_annotations ==
                  sort_by_start(nea.web_annotations \o eva.web_annotations
                                \o eaa.web_annotations)
          IN  IF raised # ""
              THEN /\ pc' = "caught"
                   /\ error' = raised
                   /\ UNCHANGED <<web_annotations, written, xmi_paths>>
              ELSE /\ web_annotations' = all_web_annotations
                   /\ written' = Append(written,
                                        [path |-> Head(xmi_paths).basename
                                                  \o <<"web-annotations.json">>,
                                         content |-> all_web_annotations])
                   /\ xmi_paths' = Tail(xmi_paths)
                   /\ pc' = IF Tail(xmi_paths) = <<>> THEN "done" ELSE "get_xmi_processor"
                   /\ UNCHANGED error
    /\ UNCHANGED <<extract_vars, document_data, xp>>

NextXMI == GetXmiProcessor \/ GetWebAnnotations

SpecXMI == InitXMI /\ [][NextXMI]_vars

\* what was written as the Web Annotations of the XMI file of xp
OutputOf ==
    { written[k].content : k \in { j \in 1..Len(written) :
          written[j].path = xp[1].xmi_path \o <<"web-annotations.json">> } }

\* the stored intervals that share a character with [begin, end)
Overlapping(begin, end) ==
    { iv \in xp[1].itree :
        \E c \in 0..xp[1].text_len : begin <= c /\ c < end /\ iv.begin <= c /\ c < iv.end }

\* the three targets of an interval
IsIntervalGroup(t, g, iv) ==
    LET region == RegionOf(iv.data.coords)
    IN  /\ t[3 * g - 1].type = "Image"
        /\ t[3 * g - 1].source = Source("iiif", iv.data.iiif_base_uri, region, <<>>)
        /\ t[3 * g].type = "Image"
        /\ t[3 * g].source = Source("iiif", iv.data.iiif_base_uri, FULL, <<>>)
        /\ t[3 * g].selector = <<Selector("FragmentSelector",
                                          <<"x", "y", "w", "h", "=">> \o region, <<>>)>>
        /\ t[3 * g + 1].type = "Canvas"
        /\ t[3 * g + 1].source = iv.data.canvas_id
        /\ t[3 * g + 1].selector = <<Selector("iiif:ImageApiSelector", region, <<>>)>>

\* the target list of an annotation with the range [begin, end)
IsTargetList(t, begin, end) ==
    LET ivs == Overlapping(begin, end)
        n == Cardinality(ivs)
    IN  /\ Len(t) = 1 + 3 * n
        /\ t[1].type \notin {"Image", "Canvas"}
        /\ t[1].source = xp[1].plain_text_source
        /\ t[1].selector[2] = Selector("TextPositionSelector", <<begin, end>>, <<>>)
        /\ \E order \in [1..n -> ivs] :
              /\ \A g, h \in 1..n : g < h =>
                    /\ order[g] # order[h]
                    /\ \/ order[g].begin < order[h].begin
                       \/ order[g].begin = order[h].begin /\ order[g].end <= order[h].end
              /\ \A g \in 1..n : IsIntervalGroup(t, g, order[g])

\* the annotations of the CAS that carry a range and are turned into a Web
\* Annotation: named entities with a value and event predicates
Converted(a) ==
    a.has_range /\ (a.type = SEM_PRED \/ (a.type = NAMED_ENTITY /\ a.value # ""))

\* C15: once an XMI file has been handled, every annotation of it with a
\* range [begin, end) has a Web Annotation whose targets are one text target
\* followed, for every stored interval overlapping [begin, end), in ascending
\* interval order, by the rect-region Image, fragment-selector Image and Canvas
\* target of that interval: 1 + 3k targets for k overlapping intervals.
C15_ThreeTargetsPerInterval ==
    (xp # <<>> /\ pc # "get_web_annotations") =>
        \A k \in 1..Len(xp[1].cas) :
            Converted(xp[1].cas[k]) =>
                \E content \in OutputOf : \E j \in 1..Len(content) :
                    /\ content[j].id = xp[1].cas[k].xmiID
                    /\ IsTargetList(content[j].target, xp[1].cas[k].begin, xp[1].cas[k].end)

\* no document-data record has the checksum of the text of the XMI file of xp
NoRecordMatches ==
    /\ xp # <<>>
    /\ \A k \in 1..Len(document_data) : document_data[k].plain_text_md5 # md5(xp[1].text)

\* C16: when no document-data record has the checksum of the text, the
\* XMIProcessor is made with the source "urn:placeholder" and an empty interval
\* index, and every Web Annotation written for the file has the one text
\* target on that source and no Image or Canvas target.
C16_PlaceholderAndTextOnly ==
    NoRecordMatches =>
        /\ xp[1].plain_text_source = "urn:placeholder"
        /\ xp[1].itree = {}
        /\ \A content \in OutputOf : \A j \in 1..Len(content) :
              /\ Len(content[j].target) = 1
              /\ content[j].target[1].source = "urn:placeholder"
              /\ \A i \in 1..Len(content[j].target) :
                    content[j].target[i].type \notin {"Image", "Canvas"}

\* a record with intervals for another text: the Web Annotation of the named
\* entity at [1, 3) is written with its text target alone
C16_Witness ==
    /\ NoRecordMatches
    /\ document_data # <<>>
    /\ document_data[1].text_intervals # <<>>
    /\ pc = "done"
    /\ \E content \in OutputOf :
          /\ Len(content) = 1
          /\ content[1].id = 2
          /\ content[1].target[1].selector[2].value = <<1, 3>>

\* the first target of a Web Annotation selects the characters [begin, end)
SelectsRange(web_annotation, begin, end) ==
    /\ web_annotation.target # <<>>
    /\ web_annotation.target[1].selector[2]
           = Selector("TextPositionSelector", <<begin, end>>, <<>>)

\* C21: once an XMI file has been handled, every named entity with a value
\* and every event predicate of it, which carry a range [begin, end) of
\* their own with begin >= 0, begin = 0 included, has a Web Annotation whose
\* first target has the TextPositionSelector with start = begin and end = end
\* of that same feature structure: it was not replaced by its 'target'.
C21_OwnRangeSelected ==
    (xp # <<>> /\ pc # "get_web_annotations") =>
        \A k \in 1..Len(xp[1].cas) :
            (Converted(xp[1].cas[k]) /\ xp[1].cas[k].begin >= 0) =>
                \E content \in OutputOf : \E j \in 1..Len(content) :
                    /\ content[j].id = xp[1].cas[k].xmiID
                    /\ SelectsRange(content[j], xp[1].cas[k].begin, xp[1].cas[k].end)

====
